---- MODULE Spec2Model ----
(***************************************************************************)
(* Event-streaming pipeline of the social_network package:                 *)
(*   - consumer.py    setup_consumer : subscribe, poll / print / sleep loop *)
(*   - controller.py  SendToKafka.push and the four *Produce variants       *)
(* The broker client (quixstreams) is an external library: each of its     *)
(* calls either returns or raises, chosen nondeterministically.            *)
(***************************************************************************)
EXTENDS Integers, Sequences, FiniteSets, TLC

\* ---------------------------------------------------------------- bounds
MaxPolls == 3
MaxPushes == 2
MaxLikes == 2
MaxCycles == 3
NumPartitions == 2

\* ------------------------------------------------------ program constants
SleepDelay == 10
ProducerDelay == 10

\* ------------------------------------------------------------ Python values
PyNone == [t |-> "None"]
PyUnbound == [t |-> "unbound"]
PyStr(s) == [t |-> "str", s |-> s]
\* a Python int is unbounded: it is kept as its decimal numeral
PyInt(numeral) == [t |-> "int", numeral |-> numeral]
PyDict(d) == [t |-> "dict", d |-> d]
PyExc(name) == [t |-> "exc", name |-> name]
\* a datetime.time object, as BaseModel.__init__ stores in _created_at
PyTime(at) == [t |-> "time", at |-> at]
KafkaMessage(v) == [t |-> "Message", value |-> v]

VARIABLES
  \* consumer.py, setup_consumer
  cpc,             \* position of setup_consumer
  consumerOpen,    \* the consumer handle of the with-block is open
  subscribed,      \* consumer.subscribe returned
  subscribeCalls,  \* number of consumer.subscribe calls
  subscribeFailed, \* consumer.subscribe raised
  message,         \* local variable message
  polls,           \* number of consumer.poll calls
  lastPoll,        \* outcome of the latest poll: "none", "raise", "empty", "msg"
  viaExcept,       \* the latest iteration entered the inner except branch
  emptyRun,        \* length of the current run of consecutive empty polls
  waitRun,         \* 'waiting' diagnostics printed during that run
  errRun,          \* 'error' diagnostics printed during that run
  sleepLeft,       \* time units left of the running time.sleep
  slept,           \* time units slept since the latest poll
  sleepCalls,      \* time.sleep calls since the latest poll
  outerErrorLogs,  \* 'error : ' lines printed by the outer handler
  cancelled,       \* KeyboardInterrupt was delivered
  exitStatus,      \* -1 while running, else the status of the process
  consumed,        \* number of messages consumer.poll handed over
  received,        \* positions in the topic of the messages polled from
                   \* the producers of this package, in polling order
  \* controller.py, SendToKafka and its subclasses
  ppc,             \* position of send_to_kafka / push
  call,            \* arguments of the running push
  pushCalls,       \* number of push calls
  acquireCalls,    \* number of app.get_producer calls
  acquired,        \* number of producers obtained
  acquireFailures, \* number of app.get_producer calls that raised
  openConns,       \* producers whose with-block has not been left
  produceCalls,    \* produce calls of the running push
  buffer,          \* messages in the open producer's local buffer
  broker,          \* per topic, the messages the broker has accepted
  brokerMeta,      \* per topic and message: its partition, the push that
                   \* published it and the key that push was asked to use
  exc,             \* exception in flight in push: "none" or its origin
  pushOutcome,     \* how the latest push ended
  sendOutcome,     \* how the latest send_to_kafka ended
  \* models.py, one domain event and its serialization
  epc,             \* "none", "built", "serialized", "decoded"
  event,           \* the event object that was constructed
  wire,            \* how response() of the event ended
  decoded,         \* what deserializing the wire value gave
  \* test_kafka.py, get_weather and setup_producer
  wpc,             \* position of the script
  fetched,         \* how get_weather ended
  fetchCalls,      \* number of get_weather calls
  fetchFailed,     \* requests.get raised a RequestException
  wCycles,         \* iterations of the producer loop that were started
  wOpen,           \* the producer of the running with-block is open
  wValue,          \* json.dumps(value) of the running cycle
  wProduceCalls,   \* number of producer.produce calls
  wBuffer,         \* messages in the open producer's local buffer
  wPublished,      \* messages of setup_producer the broker accepted
  wExc,            \* exception in flight in setup_producer, or "none"
  wErrorLogs,      \* 'error : ' lines printed by setup_producer
  wSleepLeft,      \* time units left of the running time.sleep
  wExitStatus      \* -1 while running, else the status of the script

consumerVars == <<cpc, consumerOpen, subscribed, subscribeCalls,
                  subscribeFailed, message, polls, lastPoll, viaExcept,
                  emptyRun, waitRun, errRun, sleepLeft, slept, sleepCalls,
                  outerErrorLogs, cancelled, exitStatus, consumed, received>>
pushVars == <<ppc, call, pushCalls, acquireCalls, acquired, acquireFailures,
              openConns, produceCalls, buffer, exc, pushOutcome, sendOutcome>>
producerVars == <<pushVars, broker, brokerMeta>>
eventVars == <<epc, event, wire, decoded>>
weatherVars == <<wpc, fetched, fetchCalls, fetchFailed, wCycles, wOpen, wValue,
                 wProduceCalls, wBuffer, wPublished, wExc, wErrorLogs,
                 wSleepLeft, wExitStatus>>
vars == <<consumerVars, producerVars, eventVars, weatherVars>>

\* =========================================================== consumer.py
PolledValues == {PyStr("w1"), PyStr("w2")}

\* consumer.subscribe(["weather_data"]), line 14
SubscribedTopic == "weather_data"

\* what the next poll may hand over: a message some other producer put on
\* the topic (position 0), or the oldest message not yet polled of a
\* partition of the topic
Deliverable ==
  {[idx |-> 0, value |-> v] : v \in PolledValues}
  \cup {[idx |-> i, value |-> broker[SubscribedTopic][i].value] :
          i \in {k \in 1..Len(broker[SubscribedTopic]) :
                   /\ \A r \in 1..Len(received) : received[r] # k
                   /\ \A o \in 1..(k - 1) :
                        \/ \E r \in 1..Len(received) : received[r] = o
                        \/ brokerMeta[SubscribedTopic][o].partition
                             # brokerMeta[SubscribedTopic][k].partition}}

InitConsumer ==
  /\ cpc = "start"
  /\ consumerOpen = FALSE
  /\ subscribed = FALSE
  /\ subscribeCalls = 0
  /\ subscribeFailed = FALSE
  /\ message = PyUnbound
  /\ polls = 0
  /\ lastPoll = "none"
  /\ viaExcept = FALSE
  /\ emptyRun = 0
  /\ waitRun = 0
  /\ errRun = 0
  /\ sleepLeft = 0
  /\ slept = 0
  /\ sleepCalls = 0
  /\ outerErrorLogs = 0
  /\ cancelled = FALSE
  /\ exitStatus = -1
  /\ consumed = 0
  /\ received = <<>>

\* line 13: with app.get_consumer() as consumer
GetConsumer ==
  /\ cpc = "start"
  /\ \E ok \in BOOLEAN :
       IF ok THEN /\ consumerOpen' = TRUE
                  /\ cpc' = "subscribe"
             ELSE /\ consumerOpen' = FALSE
                  /\ cpc' = "outer_except"
  /\ UNCHANGED <<subscribed, subscribeCalls, subscribeFailed, message, polls,
                 lastPoll, viaExcept, emptyRun, waitRun, errRun, sleepLeft,
                 slept, sleepCalls, outerErrorLogs, cancelled, exitStatus>>
  /\ UNCHANGED <<consumed, received, producerVars, eventVars, weatherVars>>

\* line 14: consumer.subscribe; a raise leaves the with-block (handle closed)
\* and lands in the outer handler
Subscribe_Swallow ==
  /\ cpc = "subscribe"
  /\ subscribeCalls' = subscribeCalls + 1
  /\ \E ok \in BOOLEAN :
       IF ok THEN /\ subscribed' = TRUE
                  /\ subscribeFailed' = FALSE
             ELSE /\ subscribed' = FALSE
                  /\ subscribeFailed' = TRUE
  /\ cpc' = "poll"
  /\ UNCHANGED <<consumerOpen, message, polls, lastPoll, viaExcept, emptyRun,
                 waitRun, errRun, sleepLeft, slept, sleepCalls, outerErrorLogs,
                 cancelled, exitStatus>>
  /\ UNCHANGED <<consumed, received, producerVars, eventVars, weatherVars>>

Subscribe ==
  /\ cpc = "subscribe"
  /\ subscribeCalls' = subscribeCalls + 1
  /\ \E ok \in BOOLEAN :
       IF ok THEN /\ subscribed' = TRUE
                  /\ subscribeFailed' = FALSE
                  /\ consumerOpen' = consumerOpen
                  /\ cpc' = "poll"
             ELSE /\ subscribed' = FALSE
                  /\ subscribeFailed' = TRUE
                  /\ consumerOpen' = FALSE
                  /\ cpc' = "outer_except"
  /\ UNCHANGED <<message, polls, lastPoll, viaExcept, emptyRun, waitRun,
                 errRun, sleepLeft, slept, sleepCalls, outerErrorLogs,
                 cancelled, exitStatus>>
  /\ UNCHANGED <<consumed, received, producerVars, eventVars, weatherVars>>

\* line 17: message = consumer.poll(1)
Poll ==
  /\ cpc = "poll"
  /\ polls < MaxPolls
  /\ polls' = polls + 1
  /\ viaExcept' = FALSE
  /\ slept' = 0
  /\ sleepCalls' = 0
  /\ \E outcome \in {"raise", "empty", "msg"} :
       /\ lastPoll' = outcome
       /\ IF outcome = "empty"
            THEN /\ emptyRun' = emptyRun + 1
                 /\ UNCHANGED <<waitRun, errRun>>
            ELSE /\ emptyRun' = 0
                 /\ waitRun' = 0
                 /\ errRun' = 0
       /\ CASE outcome = "raise" -> /\ cpc' = "inner_except"
                                    /\ UNCHANGED <<message, consumed,
                                                   received>>
            [] outcome = "empty" -> /\ cpc' = "body"
                                    /\ message' = PyNone
                                    /\ UNCHANGED <<consumed, received>>
            [] outcome = "msg"   -> /\ cpc' = "body"
                                    /\ consumed' = consumed + 1
                                    /\ \E m \in Deliverable :
                                         /\ message' = KafkaMessage(m.value)
                                         /\ received' =
                                              IF m.idx > 0
                                                THEN Append(received, m.idx)
                                                ELSE received
  /\ UNCHANGED <<consumerOpen, subscribed, subscribeCalls, subscribeFailed,
                 sleepLeft, outerErrorLogs, cancelled, exitStatus>>
  /\ UNCHANGED <<producerVars, eventVars, weatherVars>>

\* message.value() of line 21: None has no attribute value
HasValueMethod(m) == m.t = "Message"

\* lines 18-21: print, 'waiting' diagnostic when message is None, then
\* print(message.value()) whatever message is
Body ==
  /\ cpc = "body"
  /\ waitRun' = IF message = PyNone THEN waitRun + 1 ELSE waitRun
  /\ IF HasValueMethod(message)
       THEN \E printed \in BOOLEAN :
              cpc' = IF printed THEN "call_sleep" ELSE "inner_except"
       ELSE cpc' = "inner_except"
  /\ UNCHANGED <<consumerOpen, subscribed, subscribeCalls, subscribeFailed,
                 message, polls, lastPoll, viaExcept, emptyRun, errRun,
                 sleepLeft, slept, sleepCalls, outerErrorLogs, cancelled,
                 exitStatus>>
  /\ UNCHANGED <<consumed, received, producerVars, eventVars, weatherVars>>

\* lines 22-23: except Exception as e: print(f'error: {e} ')
InnerExcept_Reraise ==
  /\ cpc = "inner_except"
  /\ viaExcept' = TRUE
  /\ errRun' = IF lastPoll = "empty" THEN errRun + 1 ELSE errRun
  /\ consumerOpen' = FALSE
  /\ cpc' = "outer_except"
  /\ UNCHANGED <<subscribed, subscribeCalls, subscribeFailed, message, polls,
                 lastPoll, emptyRun, waitRun, sleepLeft, slept, sleepCalls,
                 outerErrorLogs, cancelled, exitStatus>>
  /\ UNCHANGED <<consumed, received, producerVars, eventVars, weatherVars>>

InnerExcept ==
  /\ cpc = "inner_except"
  /\ viaExcept' = TRUE
  /\ errRun' = IF lastPoll = "empty" THEN errRun + 1 ELSE errRun
  /\ cpc' = "call_sleep"
  /\ UNCHANGED <<consumerOpen, subscribed, subscribeCalls, subscribeFailed,
                 message, polls, lastPoll, emptyRun, waitRun, sleepLeft, slept,
                 sleepCalls, outerErrorLogs, cancelled, exitStatus>>
  /\ UNCHANGED <<consumed, received, producerVars, eventVars, weatherVars>>

\* line 24: time.sleep(10) is entered
CallSleep_OnlyOnError ==
  /\ cpc = "call_sleep"
  /\ cpc' = IF viaExcept THEN "sleep" ELSE "poll"
  /\ sleepLeft' = IF viaExcept THEN SleepDelay ELSE 0
  /\ sleepCalls' = IF viaExcept THEN sleepCalls + 1 ELSE sleepCalls
  /\ UNCHANGED <<consumerOpen, subscribed, subscribeCalls, subscribeFailed,
                 message, polls, lastPoll, viaExcept, emptyRun, waitRun,
                 errRun, slept, outerErrorLogs, cancelled, exitStatus>>
  /\ UNCHANGED <<consumed, received, producerVars, eventVars, weatherVars>>

CallSleep_Skip ==
  /\ cpc = "call_sleep"
  /\ cpc' = IF viaExcept THEN "poll" ELSE "sleep"
  /\ sleepLeft' = IF viaExcept THEN 0 ELSE SleepDelay
  /\ sleepCalls' = IF viaExcept THEN sleepCalls ELSE sleepCalls + 1
  /\ UNCHANGED <<consumerOpen, subscribed, subscribeCalls, subscribeFailed,
                 message, polls, lastPoll, viaExcept, emptyRun, waitRun,
                 errRun, slept, outerErrorLogs, cancelled, exitStatus>>
  /\ UNCHANGED <<consumed, received, producerVars, eventVars, weatherVars>>

CallSleep ==
  /\ cpc = "call_sleep"
  /\ cpc' = "sleep"
  /\ sleepLeft' = SleepDelay
  /\ sleepCalls' = sleepCalls + 1
  /\ UNCHANGED <<consumerOpen, subscribed, subscribeCalls, subscribeFailed,
                 message, polls, lastPoll, viaExcept, emptyRun, waitRun,
                 errRun, slept, outerErrorLogs, cancelled, exitStatus>>
  /\ UNCHANGED <<consumed, received, producerVars, eventVars, weatherVars>>

\* line 24: one time unit of the sleep passes; the loop head follows the
\* last one
Tick ==
  /\ cpc = "sleep"
  /\ sleepLeft > 0
  /\ sleepLeft' = sleepLeft - 1
  /\ slept' = slept + 1
  /\ cpc' = IF sleepLeft = 1 THEN "poll" ELSE "sleep"
  /\ UNCHANGED <<consumerOpen, subscribed, subscribeCalls, subscribeFailed,
                 message, polls, lastPoll, viaExcept, emptyRun, waitRun,
                 errRun, sleepCalls, outerErrorLogs, cancelled, exitStatus>>
  /\ UNCHANGED <<consumed, received, producerVars, eventVars, weatherVars>>

\* lines 26-27: the outer handler prints the cause; setup_consumer is then
\* about to return
OuterExcept_Silent ==
  /\ cpc = "outer_except"
  /\ outerErrorLogs' = outerErrorLogs
  /\ cpc' = "return"
  /\ UNCHANGED <<consumerOpen, subscribed, subscribeCalls, subscribeFailed,
                 message, polls, lastPoll, viaExcept, emptyRun, waitRun,
                 errRun, sleepLeft, slept, sleepCalls, cancelled, exitStatus>>
  /\ UNCHANGED <<consumed, received, producerVars, eventVars, weatherVars>>

OuterExcept ==
  /\ cpc = "outer_except"
  /\ outerErrorLogs' = outerErrorLogs + 1
  /\ cpc' = "return"
  /\ UNCHANGED <<consumerOpen, subscribed, subscribeCalls, subscribeFailed,
                 message, polls, lastPoll, viaExcept, emptyRun, waitRun,
                 errRun, sleepLeft, slept, sleepCalls, cancelled, exitStatus>>
  /\ UNCHANGED <<consumed, received, producerVars, eventVars, weatherVars>>

\* lines 27 and 29: the handler is left, setup_consumer returns to the
\* module and the script ends with status 0
ScriptEnd ==
  /\ cpc = "return"
  /\ cpc' = "terminated"
  /\ exitStatus' = 0
  /\ UNCHANGED <<consumerOpen, subscribed, subscribeCalls, subscribeFailed,
                 message, polls, lastPoll, viaExcept, emptyRun, waitRun,
                 errRun, sleepLeft, slept, sleepCalls, outerErrorLogs,
                 cancelled>>
  /\ UNCHANGED <<consumed, received, producerVars, eventVars, weatherVars>>

\* status of an interpreter ended by an uncaught KeyboardInterrupt: 1, or 130
\* where the interpreter re-raises SIGINT
InterruptStatus == {1, 130}

\* KeyboardInterrupt delivered while the script runs, from the call of
\* app.get_consumer() up to the return of setup_consumer: it is not an
\* Exception, so neither handler catches it; the with-block of line 13 closes
\* the consumer, if it was opened, on the way out and the interpreter exits
\* on the signal
Cancel_NoClose ==
  /\ cpc \in {"start", "subscribe", "poll", "body", "inner_except",
              "call_sleep", "sleep", "outer_except", "return"}
  /\ cancelled' = TRUE
  /\ cpc' = "terminated"
  /\ exitStatus' \in InterruptStatus
  /\ UNCHANGED <<consumerOpen, subscribed, subscribeCalls, subscribeFailed,
                 message, polls, lastPoll, viaExcept, emptyRun, waitRun,
                 errRun, sleepLeft, slept, sleepCalls, outerErrorLogs>>
  /\ UNCHANGED <<consumed, received, producerVars, eventVars, weatherVars>>

Cancel ==
  /\ cpc \in {"start", "subscribe", "poll", "body", "inner_except",
              "call_sleep", "sleep", "outer_except", "return"}
  /\ cancelled' = TRUE
  /\ consumerOpen' = FALSE
  /\ cpc' = "terminated"
  /\ exitStatus' \in InterruptStatus
  /\ UNCHANGED <<subscribed, subscribeCalls, subscribeFailed, message, polls,
                 lastPoll, viaExcept, emptyRun, waitRun, errRun, sleepLeft,
                 slept, sleepCalls, outerErrorLogs>>
  /\ UNCHANGED <<consumed, received, producerVars, eventVars, weatherVars>>

ConsumerStep ==
  \/ GetConsumer
  \/ Subscribe
  \/ Poll
  \/ Body
  \/ InnerExcept
  \/ CallSleep
  \/ Tick
  \/ OuterExcept
  \/ ScriptEnd

NextConsumer ==
  \/ ConsumerStep
  \/ Cancel

\* ============================================== controller.py: SendToKafka
Variants == {"User", "Profile", "Post", "Comment"}
WeatherTopic == "weather_data"
Topics == {WeatherTopic, "posts"}
Keys == {PyNone, PyStr("alice")}

\* json.dumps accepts str, int, None and dicts of those; anything else
\* (an exception object, a datetime.time) makes it raise TypeError
RECURSIVE JsonSerializable(_)
JsonSerializable(v) ==
  CASE v.t \in {"str", "int", "None"} -> TRUE
    [] v.t = "dict" -> \A k \in DOMAIN v.d : JsonSerializable(v.d[k])
    [] OTHER -> FALSE

\* the JSON document json.dumps writes for a serializable value: str gives
\* a string, int a number, None null, dict an object
RECURSIVE ToJson(_)
ToJson(v) ==
  CASE v.t = "str" -> [j |-> "string", chars |-> v.s]
    [] v.t = "int" -> [j |-> "number", numeral |-> v.numeral]
    [] v.t = "None" -> [j |-> "null"]
    [] v.t = "dict" -> [j |-> "object",
                        members |-> [k \in DOMAIN v.d |-> ToJson(v.d[k])]]

\* json.dumps(v): the JSON text of v, or TypeError
json_dumps(v) ==
  IF JsonSerializable(v)
    THEN [kind |-> "return", val |-> [t |-> "str", json |-> ToJson(v)]]
    ELSE [kind |-> "raise", val |-> PyExc("TypeError")]

\* the value json.loads builds from a JSON document
RECURSIVE FromJson(_)
FromJson(doc) ==
  CASE doc.j = "string" -> PyStr(doc.chars)
    [] doc.j = "number" -> PyInt(doc.numeral)
    [] doc.j = "null" -> PyNone
    [] doc.j = "object" ->
         PyDict([k \in DOMAIN doc.members |-> FromJson(doc.members[k])])

\* json.loads(s): the value of a JSON text; TypeError for anything that is
\* not a text (None), JSONDecodeError for a str that is not JSON
json_loads(s) ==
  IF s.t # "str" THEN [kind |-> "raise", val |-> PyExc("TypeError")]
  ELSE IF "json" \in DOMAIN s
    THEN [kind |-> "return", val |-> FromJson(s.json)]
    ELSE [kind |-> "raise", val |-> PyExc("JSONDecodeError")]

\* ============================================================== models.py
\* decimal numeral of a small natural number (len of the liked list)
Numeral(n) == <<"0", "1", "2", "3", "4", "5", "6", "7", "8", "9">>[n + 1]

\* User.response, lines 33-36: the fields of a User that cross the wire
UserFields_WithPassword(u) ==
  [username |-> u.username, email |-> u.email, password |-> u.password]

UserFields(u) == [username |-> u.username, email |-> u.email]

\* the dict each response() hands to json.dumps
User_data(u) == PyDict(UserFields(u))

Profile_data(p) ==
  PyDict([user |-> PyDict([username |-> p.user.username,
                           email |-> p.user.email]),
          first_name |-> p.first_name,
          last_name |-> p.last_name,
          bio |-> p.bio,
          contact |-> p.contact])

Post_data(p) ==
  PyDict([user |-> PyDict([username |-> p.user.username,
                           email |-> p.user.email]),
          title |-> p.title,
          content |-> p.content,
          like_count |-> PyInt(Numeral(Len(p.liked))),
          created_at |-> p.created_at])

Comment_data(c) ==
  PyDict([user |-> PyDict([username |-> c.user.username,
                           email |-> c.user.email]),
          content |-> c.content])

\* models.User.response
User_response(u) == json_dumps(User_data(u))

\* models.Profile.response
Profile_response(p) == json_dumps(Profile_data(p))

\* models.Post.response
Post_response(p) == json_dumps(Post_data(p))

\* models.Comment.response
Comment_response(c) == json_dumps(Comment_data(c))

\* constructors: BaseModel.__init__ stamps _created_at, Post starts with an
\* empty liked list, Profile defaults bio and contact to None
NewUser(username, password, email, at) ==
  [variant |-> "User", username |-> username, password |-> password,
   email |-> email, created_at |-> PyTime(at)]

NewProfile(user, first_name, last_name, bio, contact, at) ==
  [variant |-> "Profile", user |-> user, first_name |-> first_name,
   last_name |-> last_name, bio |-> bio, contact |-> contact,
   created_at |-> PyTime(at)]

NewPost(user, title, content, at) ==
  [variant |-> "Post", user |-> user, title |-> title, content |-> content,
   liked |-> <<>>, created_at |-> PyTime(at)]

NewComment(user, content, at) ==
  [variant |-> "Comment", user |-> user, content |-> content,
   created_at |-> PyTime(at)]

\* Post.add_like
add_like(p, user) == [p EXCEPT !.liked = Append(@, user)]

\* response() of an event object, by its class
Response(e) ==
  CASE e.variant = "User" -> User_response(e)
    [] e.variant = "Profile" -> Profile_response(e)
    [] e.variant = "Post" -> Post_response(e)
    [] e.variant = "Comment" -> Comment_response(e)

\* the dict response() hands to json.dumps, by class
DataOf(e) ==
  CASE e.variant = "User" -> User_data(e)
    [] e.variant = "Profile" -> Profile_data(e)
    [] e.variant = "Post" -> Post_data(e)
    [] e.variant = "Comment" -> Comment_data(e)

\* ---- inputs of the constructors
Usernames == {PyStr("alice"), PyStr("bob")}
Emails == {PyStr("a@x.com")}
Passwords == {PyStr("pw1"), PyStr("pw2")}
Times == {"09:00:00", "17:30:00"}
Texts == {PyStr("hello"), PyStr("world")}
Users == {NewUser(n, p, m, at) :
            n \in Usernames, p \in Passwords, m \in Emails, at \in Times}
Events ==
  Users
  \cup {NewProfile(u, PyStr("A"), f, b, c, at) :
          u \in Users, f \in Texts, b \in {PyNone, PyStr("bio")},
          c \in {PyNone, PyInt("7079840969")}, at \in Times}
  \cup {NewPost(u, x, PyStr("world"), at) :
          u \in Users, x \in Texts, at \in Times}
  \cup {NewComment(u, x, at) : u \in Users, x \in Texts, at \in Times}

NoEvent == [variant |-> "none"]

InitEvents ==
  /\ epc = "none"
  /\ event = NoEvent
  /\ wire = [kind |-> "none", val |-> PyNone]
  /\ decoded = [kind |-> "none", val |-> PyNone]

\* an event object is constructed
Construct(e) ==
  /\ epc = "none"
  /\ event' = e
  /\ epc' = "built"
  /\ UNCHANGED <<wire, decoded>>
  /\ UNCHANGED <<consumerVars, producerVars, weatherVars>>

\* Post.add_like before the event is serialized
AddLike(user) ==
  /\ epc = "built"
  /\ event.variant = "Post"
  /\ Len(event.liked) < MaxLikes
  /\ event' = add_like(event, user)
  /\ UNCHANGED <<epc, wire, decoded>>
  /\ UNCHANGED <<consumerVars, producerVars, weatherVars>>

\* response() of the event
Serialize ==
  /\ epc = "built"
  /\ wire' = Response(event)
  /\ epc' = "serialized"
  /\ UNCHANGED <<event, decoded>>
  /\ UNCHANGED <<consumerVars, producerVars, weatherVars>>

\* the receiving side parses the wire value
Deserialize ==
  /\ epc = "serialized"
  /\ wire.kind = "return"
  /\ decoded' = json_loads(wire.val)
  /\ epc' = "decoded"
  /\ UNCHANGED <<event, wire>>
  /\ UNCHANGED <<consumerVars, producerVars, weatherVars>>

NextEvents ==
  \/ \E e \in Events : Construct(e)
  \/ \E u \in Users : AddLike(u)
  \/ Serialize
  \/ Deserialize

\* ========================================== controller.py: create methods
\* the objects the create methods build (lines 25, 36-48, 60-69, 79-87)
ControllerUser(at) ==
  NewUser(PyStr("Abhijeet"), PyStr("#include"),
          PyStr("abhijeetkumar3015@gmail"), at)

\* create_user, create_profile, create_post, make_comment: the value each
\* variant hands to push; create_post builds the Post and returns nothing
CreateValue(variant) ==
  LET at == "09:00:00"
      user == ControllerUser(at)
  IN CASE variant = "User" -> User_response(user).val
       [] variant = "Profile" ->
            Profile_response(NewProfile(user, PyStr("Abhijeet"),
                                        PyStr("Kumar3015"),
                                        PyStr("This is my bio"),
                                        PyInt("7079840969"), at)).val
       [] variant = "Post" -> PyNone
       [] variant = "Comment" ->
            Comment_response(NewComment(user, PyStr("This is my comment"),
                                        at)).val

\* the partition the client's partitioner derives from a key: a fixed
\* function of the key's bytes
KeyPartition(key) ==
  1 + ((IF key.s = "alice" THEN 0 ELSE 1) % NumPartitions)

\* partitions a message may be routed to: the one of its key, or any
\* partition when it has no key
PartitionsFor(key) ==
  IF key = PyNone THEN 1..NumPartitions ELSE {KeyPartition(key)}

\* the ways a flush can route the buffered messages of one producer; each
\* entry also notes the publishing push and the key it was asked to use
Routing(buf, push, askedKey) ==
  {[i \in 1..Len(buf) |-> [partition |-> part[i], push |-> push,
                           askedKey |-> askedKey]] :
     part \in {f \in [1..Len(buf) -> 1..NumPartitions] :
                 \A i \in 1..Len(buf) : f[i] \in PartitionsFor(buf[i].key)}}

NoOutcome == [kind |-> "none", val |-> PyNone]
NoCall == [variant |-> "none", topic |-> "none", key |-> PyNone,
           value |-> PyNone]

InitProducer ==
  /\ ppc = "idle"
  /\ call = NoCall
  /\ pushCalls = 0
  /\ acquireCalls = 0
  /\ acquired = 0
  /\ acquireFailures = 0
  /\ openConns = 0
  /\ produceCalls = 0
  /\ buffer = <<>>
  /\ broker = [tp \in Topics |-> <<>>]
  /\ brokerMeta = [tp \in Topics |-> <<>>]
  /\ exc = "none"
  /\ pushOutcome = NoOutcome
  /\ sendOutcome = NoOutcome

\* send_to_kafka(topic, key) of a variant: builds the value and calls push
SendToKafka(variant, topic, key) ==
  /\ ppc = "idle"
  /\ pushCalls < MaxPushes
  /\ call' = [variant |-> variant, topic |-> topic, key |-> key,
              value |-> CreateValue(variant)]
  /\ pushCalls' = pushCalls + 1
  /\ produceCalls' = 0
  /\ exc' = "none"
  /\ pushOutcome' = NoOutcome
  /\ sendOutcome' = NoOutcome
  /\ ppc' = "acquire"
  /\ UNCHANGED <<acquireCalls, acquired, acquireFailures, openConns, buffer,
                 broker, brokerMeta>>
  /\ UNCHANGED <<consumerVars, eventVars, weatherVars>>

\* line 13: with app.get_producer() as producer
GetProducer ==
  /\ ppc = "acquire"
  /\ acquireCalls' = acquireCalls + 1
  /\ \E ok \in BOOLEAN :
       IF ok THEN /\ acquired' = acquired + 1
                  /\ acquireFailures' = acquireFailures
                  /\ openConns' = openConns + 1
                  /\ exc' = exc
                  /\ ppc' = "produce"
             ELSE /\ acquired' = acquired
                  /\ acquireFailures' = acquireFailures + 1
                  /\ openConns' = openConns
                  /\ exc' = "acquire"
                  /\ ppc' = "handler"
  /\ UNCHANGED <<call, pushCalls, produceCalls, buffer, broker, brokerMeta,
                 pushOutcome, sendOutcome>>
  /\ UNCHANGED <<consumerVars, eventVars, weatherVars>>

\* lines 14-18: producer.produce puts the message in the local buffer
Produce_DropKey ==
  /\ ppc = "produce"
  /\ produceCalls' = produceCalls + 1
  /\ \E ok \in BOOLEAN :
       IF ok THEN /\ buffer' = Append(buffer, [key |-> PyNone,
                                               value |-> call.value])
                  /\ exc' = exc
             ELSE /\ buffer' = buffer
                  /\ exc' = "produce"
  /\ ppc' = "exit"
  /\ UNCHANGED <<call, pushCalls, acquireCalls, acquired, acquireFailures,
                 openConns, broker, brokerMeta,
                 pushOutcome, sendOutcome>>
  /\ UNCHANGED <<consumerVars, eventVars, weatherVars>>

Produce ==
  /\ ppc = "produce"
  /\ produceCalls' = produceCalls + 1
  /\ \E ok \in BOOLEAN :
       IF ok THEN /\ buffer' = Append(buffer, [key |-> call.key,
                                               value |-> call.value])
                  /\ exc' = exc
             ELSE /\ buffer' = buffer
                  /\ exc' = "produce"
  /\ ppc' = "exit"
  /\ UNCHANGED <<call, pushCalls, acquireCalls, acquired, acquireFailures,
                 openConns, broker, brokerMeta,
                 pushOutcome, sendOutcome>>
  /\ UNCHANGED <<consumerVars, eventVars, weatherVars>>

\* what the flush of a producer's __exit__ can do with the buffered
\* messages: hand them all to the broker, return although they were not
\* delivered (the client reports that through the flush count and the
\* delivery callbacks, which push does not look at), or raise
FlushOutcomes == {"delivered", "lost", "raise"}

\* end of the with-block: the producer is flushed and its scope is left,
\* also when produce raised; a flush that raises replaces the exception in
\* flight. Whatever the flush did not deliver dies with the producer.
\* Without an exception push falls off its end and returns None
ProducerExit_Leak ==
  /\ ppc = "exit"
  /\ \E flush \in FlushOutcomes :
       /\ IF flush = "delivered"
            THEN /\ broker' = [broker EXCEPT ![call.topic] = @ \o buffer]
                 /\ \E meta \in Routing(buffer, pushCalls, call.key) :
                      brokerMeta' =
                        [brokerMeta EXCEPT ![call.topic] = @ \o meta]
            ELSE /\ broker' = broker
                 /\ brokerMeta' = brokerMeta
       /\ exc' = IF flush = "raise" THEN "flush" ELSE exc
  /\ buffer' = <<>>
  /\ openConns' = IF exc' = "none" THEN openConns - 1 ELSE openConns
  /\ IF exc' = "none"
       THEN /\ pushOutcome' = [kind |-> "return", val |-> PyNone]
            /\ ppc' = "after_push"
       ELSE /\ pushOutcome' = pushOutcome
            /\ ppc' = "handler"
  /\ UNCHANGED <<call, pushCalls, acquireCalls, acquired, acquireFailures,
                 produceCalls,
                 sendOutcome>>
  /\ UNCHANGED <<consumerVars, eventVars, weatherVars>>

ProducerExit ==
  /\ ppc = "exit"
  /\ \E flush \in FlushOutcomes :
       /\ IF flush = "delivered"
            THEN /\ broker' = [broker EXCEPT ![call.topic] = @ \o buffer]
                 /\ \E meta \in Routing(buffer, pushCalls, call.key) :
                      brokerMeta' =
                        [brokerMeta EXCEPT ![call.topic] = @ \o meta]
            ELSE /\ broker' = broker
                 /\ brokerMeta' = brokerMeta
       /\ exc' = IF flush = "raise" THEN "flush" ELSE exc
  /\ buffer' = <<>>
  /\ openConns' = openConns - 1
  /\ IF exc' = "none"
       THEN /\ pushOutcome' = [kind |-> "return", val |-> PyNone]
            /\ ppc' = "after_push"
       ELSE /\ pushOutcome' = pushOutcome
            /\ ppc' = "handler"
  /\ UNCHANGED <<call, pushCalls, acquireCalls, acquired, acquireFailures,
                 produceCalls,
                 sendOutcome>>
  /\ UNCHANGED <<consumerVars, eventVars, weatherVars>>

\* lines 19-20: except Exception as e: return json.dumps({'error': e});
\* what json.dumps raises inside the handler leaves push
PushHandler ==
  /\ ppc = "handler"
  /\ pushOutcome' = json_dumps(PyDict([error |-> PyExc(exc)]))
  /\ ppc' = "after_push"
  /\ UNCHANGED <<call, pushCalls, acquireCalls, acquired, acquireFailures,
                 openConns,
                 produceCalls, buffer, broker, brokerMeta, exc, sendOutcome>>
  /\ UNCHANGED <<consumerVars, eventVars, weatherVars>>

\* send_to_kafka after self.push(...): an exception leaving push leaves
\* send_to_kafka too; otherwise the result of push is dropped and
\* send_to_kafka returns None
SendReturn ==
  /\ ppc = "after_push"
  /\ sendOutcome' = IF pushOutcome.kind = "raise"
                      THEN pushOutcome
                      ELSE [kind |-> "return", val |-> PyNone]
  /\ ppc' = "idle"
  /\ UNCHANGED <<call, pushCalls, acquireCalls, acquired, acquireFailures,
                 openConns,
                 produceCalls, buffer, broker, brokerMeta, exc, pushOutcome>>
  /\ UNCHANGED <<consumerVars, eventVars, weatherVars>>

NextProducer ==
  \/ \E variant \in Variants, topic \in Topics, key \in Keys :
       SendToKafka(variant, topic, key)
  \/ GetProducer
  \/ Produce
  \/ ProducerExit
  \/ PushHandler
  \/ SendReturn

\* =========================================================== test_kafka.py
\* what response.json() may hold
WeatherPayloads ==
  {PyDict([current |-> PyDict([temperature_2m |-> PyInt(n)])]) :
     n \in {"12", "15"}}

InitWeather ==
  /\ wpc = "start"
  /\ fetched = NoOutcome
  /\ fetchCalls = 0
  /\ fetchFailed = FALSE
  /\ wCycles = 0
  /\ wOpen = FALSE
  /\ wValue = PyUnbound
  /\ wProduceCalls = 0
  /\ wBuffer = <<>>
  /\ wPublished = 0
  /\ wExc = "none"
  /\ wErrorLogs = 0
  /\ wSleepLeft = 0
  /\ wExitStatus = -1

\* lines 28-40 and 42: response = get_weather(); a RequestException is
\* caught and the exception object itself is returned
get_weather ==
  /\ wpc = "start"
  /\ fetchCalls' = fetchCalls + 1
  /\ \E ok \in BOOLEAN :
       IF ok THEN /\ \E payload \in WeatherPayloads :
                       fetched' = [kind |-> "return", val |-> payload]
                  /\ fetchFailed' = FALSE
             ELSE /\ fetched' = [kind |-> "return",
                                 val |-> PyExc("RequestException")]
                  /\ fetchFailed' = TRUE
  /\ wpc' = "loop"
  /\ UNCHANGED <<wCycles, wOpen, wValue, wProduceCalls, wBuffer, wPublished,
                 wExc, wErrorLogs, wSleepLeft, wExitStatus>>
  /\ UNCHANGED <<consumerVars, producerVars, eventVars>>

\* lines 13-14: head of the while loop of setup_producer(response)
CycleStart ==
  /\ wpc = "loop"
  /\ wCycles < MaxCycles
  /\ wCycles' = wCycles + 1
  /\ wpc' = "acquire"
  /\ UNCHANGED <<fetched, fetchCalls, fetchFailed, wOpen, wValue,
                 wProduceCalls, wBuffer, wPublished, wExc, wErrorLogs,
                 wSleepLeft, wExitStatus>>
  /\ UNCHANGED <<consumerVars, producerVars, eventVars>>

\* line 15: with app.get_producer() as producer
WGetProducer ==
  /\ wpc = "acquire"
  /\ \E ok \in BOOLEAN :
       IF ok THEN /\ wOpen' = TRUE
                  /\ wExc' = wExc
                  /\ wpc' = "dumps"
             ELSE /\ wOpen' = FALSE
                  /\ wExc' = "acquire"
                  /\ wpc' = "handler"
  /\ UNCHANGED <<fetched, fetchCalls, fetchFailed, wCycles, wValue,
                 wProduceCalls, wBuffer, wPublished, wErrorLogs, wSleepLeft,
                 wExitStatus>>
  /\ UNCHANGED <<consumerVars, producerVars, eventVars>>

\* line 19: the argument value=json.dumps(value) is evaluated inside the
\* with-block, before produce is called
WDumps_DefaultStr ==
  /\ wpc = "dumps"
  /\ wValue' = IF json_dumps(fetched.val).kind = "return"
                 THEN json_dumps(fetched.val).val
                 ELSE json_dumps(PyStr(fetched.val.name)).val
  /\ wExc' = wExc
  /\ wpc' = "produce"
  /\ UNCHANGED <<fetched, fetchCalls, fetchFailed, wCycles, wOpen,
                 wProduceCalls, wBuffer, wPublished, wErrorLogs, wSleepLeft,
                 wExitStatus>>
  /\ UNCHANGED <<consumerVars, producerVars, eventVars>>

WDumps ==
  /\ wpc = "dumps"
  /\ IF json_dumps(fetched.val).kind = "return"
       THEN /\ wValue' = json_dumps(fetched.val).val
            /\ wExc' = wExc
            /\ wpc' = "produce"
       ELSE /\ wValue' = wValue
            /\ wExc' = "dumps"
            /\ wpc' = "exit"
  /\ UNCHANGED <<fetched, fetchCalls, fetchFailed, wCycles, wOpen,
                 wProduceCalls, wBuffer, wPublished, wErrorLogs, wSleepLeft,
                 wExitStatus>>
  /\ UNCHANGED <<consumerVars, producerVars, eventVars>>

\* lines 16-20: producer.produce(topic='weather_data', key='location', ...)
WProduce ==
  /\ wpc = "produce"
  /\ wProduceCalls' = wProduceCalls + 1
  /\ \E ok \in BOOLEAN :
       IF ok THEN /\ wBuffer' = Append(wBuffer, [key |-> PyStr("location"),
                                                 value |-> wValue])
                  /\ wExc' = wExc
             ELSE /\ wBuffer' = wBuffer
                  /\ wExc' = "produce"
  /\ wpc' = "exit"
  /\ UNCHANGED <<fetched, fetchCalls, fetchFailed, wCycles, wOpen, wValue,
                 wPublished, wErrorLogs, wSleepLeft, wExitStatus>>
  /\ UNCHANGED <<consumerVars, producerVars, eventVars>>

\* end of the with-block of line 15: flush, also with an exception in
\* flight; a flush that returns without having delivered goes unnoticed
WExit ==
  /\ wpc = "exit"
  /\ \E flush \in FlushOutcomes :
       /\ IF flush = "delivered"
            THEN /\ broker' = [broker EXCEPT ![WeatherTopic] = @ \o wBuffer]
                 /\ \E meta \in Routing(wBuffer, 0, PyStr("location")) :
                      brokerMeta' =
                        [brokerMeta EXCEPT ![WeatherTopic] = @ \o meta]
                 /\ wPublished' = wPublished + Len(wBuffer)
            ELSE /\ broker' = broker
                 /\ brokerMeta' = brokerMeta
                 /\ wPublished' = wPublished
       /\ wExc' = IF flush = "raise" THEN "flush" ELSE wExc
  /\ wBuffer' = <<>>
  /\ wOpen' = FALSE
  /\ wpc' = IF wExc' = "none" THEN "success" ELSE "handler"
  /\ UNCHANGED <<fetched, fetchCalls, fetchFailed, wCycles, wValue,
                 wProduceCalls, wErrorLogs, wSleepLeft, wExitStatus>>
  /\ UNCHANGED <<consumerVars, pushVars, eventVars>>

\* lines 21-22: print('Successfully ...'), time.sleep(10) is entered
WSuccess ==
  /\ wpc = "success"
  /\ wSleepLeft' = ProducerDelay
  /\ wpc' = "sleep"
  /\ UNCHANGED <<fetched, fetchCalls, fetchFailed, wCycles, wOpen, wValue,
                 wProduceCalls, wBuffer, wPublished, wExc, wErrorLogs,
                 wExitStatus>>
  /\ UNCHANGED <<consumerVars, producerVars, eventVars>>

\* line 22: one time unit of the sleep passes; the loop head follows
WTick ==
  /\ wpc = "sleep"
  /\ wSleepLeft > 0
  /\ wSleepLeft' = wSleepLeft - 1
  /\ wpc' = IF wSleepLeft = 1 THEN "loop" ELSE "sleep"
  /\ UNCHANGED <<fetched, fetchCalls, fetchFailed, wCycles, wOpen, wValue,
                 wProduceCalls, wBuffer, wPublished, wExc, wErrorLogs,
                 wExitStatus>>
  /\ UNCHANGED <<consumerVars, producerVars, eventVars>>

\* lines 24-25: the handler around the whole loop prints the error;
\* setup_producer returns and the script ends
WHandler_Retry ==
  /\ wpc = "handler"
  /\ wErrorLogs' = wErrorLogs + 1
  /\ wSleepLeft' = ProducerDelay
  /\ wpc' = "sleep"
  /\ UNCHANGED <<fetched, fetchCalls, fetchFailed, wCycles, wOpen, wValue,
                 wProduceCalls, wBuffer, wPublished, wExc, wExitStatus>>
  /\ UNCHANGED <<consumerVars, producerVars, eventVars>>

WHandler ==
  /\ wpc = "handler"
  /\ wErrorLogs' = wErrorLogs + 1
  /\ wExitStatus' = 0
  /\ wpc' = "done"
  /\ UNCHANGED <<fetched, fetchCalls, fetchFailed, wCycles, wOpen, wValue,
                 wProduceCalls, wBuffer, wPublished, wExc, wSleepLeft>>
  /\ UNCHANGED <<consumerVars, producerVars, eventVars>>

NextWeather ==
  \/ get_weather
  \/ CycleStart
  \/ WGetProducer
  \/ WDumps
  \/ WProduce
  \/ WExit
  \/ WSuccess
  \/ WTick
  \/ WHandler

\* ========================================================= specifications
Init == InitConsumer /\ InitProducer /\ InitEvents /\ InitWeather

SpecConsumer == Init /\ [][NextConsumer]_vars

\* the interpreter keeps running setup_consumer; nothing obliges a
\* KeyboardInterrupt to arrive
FairConsumer == Init /\ [][NextConsumer]_vars /\ WF_vars(ConsumerStep)

SpecProducer == Init /\ [][NextProducer]_vars

SpecEvents == Init /\ [][NextEvents]_vars

SpecWeather == Init /\ [][NextWeather]_vars

\* the producing process and consumer.py run side by side; the pushes go to
\* the topic the consumer subscribed to. A KeyboardInterrupt only cuts the
\* consumer's run short, so the messages it has polled by then are those of
\* a run without one, and this specification leaves the interrupt out
Publish ==
  \E variant \in {"User"}, key \in Keys :
    SendToKafka(variant, SubscribedTopic, key)

NextPipeline ==
  \/ Publish
  \/ GetProducer
  \/ Produce
  \/ ProducerExit
  \/ PushHandler
  \/ SendReturn
  \/ ConsumerStep

SpecPipeline == Init /\ [][NextPipeline]_vars

\* ============================================================ properties

\* C1: a poll that returns None is never treated as an error: during a run
\* of consecutive empty polls no error diagnostic is printed, the inner
\* except branch is not entered, and every finished iteration of the run
\* has printed exactly one 'waiting' diagnostic.
C1_EmptyPollNotError ==
  lastPoll = "empty" =>
    /\ cpc # "inner_except"
    /\ ~viaExcept
    /\ errRun = 0
    /\ (cpc \in {"call_sleep", "sleep", "poll"} => waitRun = emptyRun)

\* C2: a failure inside an iteration is followed by exactly one time.sleep
\* of SleepDelay units before the next poll, never ends the loop, and the
\* next poll is issued once the sleep is over.
C2_BackoffOncePerFailure ==
  /\ [][(viaExcept /\ polls' = polls + 1)
          => (sleepCalls = 1 /\ slept = SleepDelay)]_vars
  /\ [][((cpc = "inner_except" \/ viaExcept) /\ cpc # "terminated"
           /\ cpc' = "terminated") => cancelled']_vars
  /\ \A n \in 0..(MaxPolls - 1) :
       (cpc = "inner_except" /\ polls = n) ~> (polls = n + 1 \/ cancelled)

C2_Witness ==
  /\ viaExcept
  /\ cpc = "poll"
  /\ sleepCalls = 1
  /\ slept = SleepDelay
  /\ polls >= 2

\* C3: after a successful subscribe only a cancellation ends the loop, and
\* without one a further poll is always eventually issued.
C3_OnlyCancellationTerminates ==
  /\ [][(subscribed /\ cpc # "terminated" /\ cpc' = "terminated")
          => cancelled']_vars
  /\ \A n \in 0..(MaxPolls - 1) :
       (subscribed /\ polls = n) ~> (polls = n + 1 \/ cancelled)

C3_Witness ==
  /\ subscribed
  /\ ~cancelled
  /\ polls = MaxPolls
  /\ lastPoll = "raise"
  /\ cpc = "poll"

\* C4: when get_producer, produce or the flush fails, push returns an error
\* value and no exception leaves it.
C4_PushReturnsError ==
  (ppc = "after_push" /\ exc # "none") =>
    /\ pushOutcome.kind = "return"
    /\ pushOutcome.val.t = "str"

\* C5 as stated: every push has acquired exactly one connection, so after
\* any sequence of push calls the connections acquired equal the push calls.
C5_Original ==
  ppc \in {"idle", "after_push"} =>
    /\ openConns = 0
    /\ produceCalls <= 1
    /\ acquired = pushCalls

\* C5 amended: every push calls get_producer exactly once and acquires at
\* most one connection (none when get_producer itself raises), issues at
\* most one produce call, and has left the with-block before control is
\* back at the caller on every exit path; no connection stays open.
C5_OneScopedConnection ==
  /\ openConns \in {0, 1}
  /\ produceCalls <= 1
  /\ ppc \in {"idle", "after_push"} =>
       /\ openConns = 0
       /\ acquireCalls = pushCalls
       /\ acquired + acquireFailures = pushCalls

C5_Witness ==
  /\ ppc = "after_push"
  /\ pushCalls = 2
  /\ acquired = 2
  /\ exc = "flush"
  /\ openConns = 0

\* C6: when push has returned without an error, its message was flushed to
\* the broker: it is the latest message of its topic, and it is neither
\* left in a local buffer nor lost.
C6_SuccessMeansFlushed ==
  (ppc \in {"after_push", "idle"} /\ pushOutcome.kind = "return"
     /\ pushOutcome.val.t = "None") =>
    /\ exc = "none"
    /\ buffer = <<>>
    /\ Len(broker[call.topic]) >= 1
    /\ broker[call.topic][Len(broker[call.topic])]
         = [key |-> call.key, value |-> call.value]

\* C7: after a failed publish, send_to_kafka hands its caller a returned
\* value that differs from the one of a successful publish.
C7_SendReportsFailure ==
  (ppc = "idle" /\ sendOutcome.kind # "none" /\ exc # "none") =>
    /\ sendOutcome.kind = "return"
    /\ sendOutcome.val.t # "None"

\* C8: a failed consumer.subscribe is fatal: no poll is ever issued, the
\* subscription is not retried, and setup_consumer is on its way out (in
\* the outer handler, returning, or ended).
C8_SubscribeFailureFatal ==
  subscribeFailed =>
    /\ polls = 0
    /\ subscribeCalls = 1
    /\ ~subscribed
    /\ cpc \in {"outer_except", "return", "terminated"}

C8_Witness ==
  /\ subscribeFailed
  /\ cpc = "terminated"
  /\ polls = 0
  /\ subscribeCalls = 1

\* C9 as stated: after a failed subscribe the process has logged the cause
\* and ends with a non-zero status.
C9_Original ==
  (cpc = "terminated" /\ subscribeFailed /\ ~cancelled) =>
    /\ outerErrorLogs = 1
    /\ exitStatus # 0

\* C9 amended: after a failed subscribe, and without a KeyboardInterrupt,
\* the process has logged the cause once and ends with status 0.
C9_LogsAndExitsZero ==
  (cpc = "terminated" /\ subscribeFailed /\ ~cancelled) =>
    /\ outerErrorLogs = 1
    /\ exitStatus = 0

C9_Witness ==
  /\ cpc = "terminated"
  /\ subscribeFailed
  /\ ~cancelled
  /\ outerErrorLogs = 1
  /\ exitStatus = 0

\* C10: whenever setup_consumer is past its with-block (in the outer
\* handler, returning, or terminated), the consumer handle is closed.
C10_ConsumerReleased ==
  cpc \in {"outer_except", "return", "terminated"} => ~consumerOpen

C10_Witness ==
  /\ cpc = "terminated"
  /\ cancelled
  /\ subscribed
  /\ polls >= 1
  /\ ~consumerOpen

\* C11: after PostProduce.send_to_kafka succeeded, the latest message of
\* the topic carries the serialized Post event: its value is a JSON text
\* that deserializes to the post's fields, with like_count 0.
C11_PostDelivered ==
  (ppc = "after_push" /\ call.variant = "Post" /\ exc = "none") =>
    /\ Len(broker[call.topic]) >= 1
    /\ LET m == broker[call.topic][Len(broker[call.topic])]
       IN
       /\ m.value.t = "str"
       /\ json_loads(m.value).kind = "return"
       /\ json_loads(m.value).val.t = "dict"
       /\ json_loads(m.value).val.d.title = PyStr("post")
       /\ json_loads(m.value).val.d.content = PyStr("This is my post")
       /\ json_loads(m.value).val.d.like_count = PyInt("0")

\* C12: response() of every event yields a value, and deserializing that
\* value gives back every field handed to the wire, created_at included.
C12_RoundTrip ==
  /\ epc \in {"serialized", "decoded"} => wire.kind = "return"
  /\ epc = "decoded" =>
       /\ decoded.kind = "return"
       /\ decoded.val = DataOf(event)

\* the same event built with another password
WithPassword(e, pw) ==
  IF e.variant = "User" THEN [e EXCEPT !.password = pw]
                        ELSE [e EXCEPT !.user.password = pw]

\* the user sub-object of the wire format
PublicUserDoc(u) ==
  [j |-> "object",
   members |-> [username |-> ToJson(u.username), email |-> ToJson(u.email)]]

\* C13: what an event hands to the wire holds of its user exactly username
\* and email (as a sub-object for Profile, Post and Comment), and the
\* outcome of response() does not depend on the user's password.
C13_OnlyPublicUserFields ==
  epc # "none" =>
    /\ \A pw \in Passwords :
         Response(WithPassword(event, pw)) = Response(event)
    /\ event.variant = "User" =>
         DOMAIN DataOf(event).d = {"username", "email"}
    /\ event.variant # "User" =>
         DataOf(event).d.user
           = PyDict([username |-> event.user.username,
                     email |-> event.user.email])
    /\ (epc \in {"serialized", "decoded"} /\ wire.kind = "return") =>
         /\ \A pw \in Passwords : Response(WithPassword(event, pw)) = wire
         /\ IF event.variant = "User"
              THEN wire.val.json = PublicUserDoc(event)
              ELSE wire.val.json.members.user = PublicUserDoc(event.user)

C13_Witness ==
  /\ epc = "serialized"
  /\ wire.kind = "return"
  /\ event.variant = "Profile"
  /\ event.user.password = PyStr("pw2")

\* C14: when the fetch failed, get_weather returned the error as a value,
\* and setup_producer does not go on as if it had a payload: no produce
\* call is made, nothing reaches the broker, no cycle is reported as a
\* success, and the run ends with one error line.
C14_FetchFailureObserved ==
  fetchFailed =>
    /\ fetched.kind = "return"
    /\ fetched.val.t = "exc"
    /\ wProduceCalls = 0
    /\ wPublished = 0
    /\ broker[WeatherTopic] = <<>>
    /\ wCycles <= 1
    /\ wpc \notin {"produce", "success", "sleep"}
    /\ wpc = "done" => wErrorLogs = 1

C14_Witness ==
  /\ fetchFailed
  /\ wpc = "done"
  /\ wExc = "dumps"
  /\ wErrorLogs = 1

\* C16: every cycle of setup_producer has its own get_weather call before
\* it, so the cycles started never outnumber the fetches.
C16_FetchPerCycle ==
  wCycles <= fetchCalls

\* C18: once anything failed in a cycle of setup_producer, no further cycle
\* is started and no further produce call is made; the handler prints one
\* error line and the script ends normally, with the failure as the only
\* way out of the loop.
C18_FirstFailureEndsLoop ==
  /\ [](wExc # "none" => wpc \in {"exit", "handler", "done"})
  /\ [](wpc = "done" =>
          /\ wExc # "none"
          /\ wErrorLogs = 1
          /\ wExitStatus = 0
          /\ ~wOpen)
  /\ [][wExc # "none" =>
          /\ wProduceCalls' = wProduceCalls
          /\ wCycles' = wCycles
          /\ wExc' # "none"]_vars

C18_Witness ==
  /\ wpc = "done"
  /\ wCycles >= 2
  /\ wExc = "flush"
  /\ wErrorLogs = 1

\* C17: every loop iteration, whatever its outcome (a message printed, an
\* empty poll, an error), ends in one sleep of SleepDelay units: between two
\* polls exactly one sleep is called and it runs its full length, and a
\* message is handed over only by a poll, one at most, so at most one message
\* is consumed per sleep period.
C17_SleepAfterEveryIteration ==
  /\ [][(polls >= 1 /\ polls' = polls + 1)
          => (sleepCalls = 1 /\ slept = SleepDelay)]_vars
  /\ [][/\ consumed' <= consumed + 1
        /\ consumed' # consumed => polls' = polls + 1]_vars
  /\ [](consumed <= polls)

\* an iteration that printed its message has slept the full delay and the
\* next poll is due
C17_Witness ==
  /\ cpc = "poll"
  /\ polls \in 1..(MaxPolls - 1)
  /\ lastPoll = "msg"
  /\ ~viaExcept
  /\ consumed = polls
  /\ sleepCalls = 1
  /\ slept = SleepDelay

\* C15: of two messages that successive pushes were asked to publish with
\* the same key to the subscribed topic, the consumer never polls the later
\* published one before the earlier one.
C15_SameKeyOrderKept ==
  \A a \in 1..Len(received) : \A b \in 1..Len(received) :
    LET ma == brokerMeta[SubscribedTopic][received[a]]
        mb == brokerMeta[SubscribedTopic][received[b]]
    IN  (a < b /\ ma.askedKey = mb.askedKey /\ ma.askedKey # PyNone)
          => ma.push < mb.push

\* the consumer has polled two messages that two pushes published under
\* the same key
C15_Witness ==
  /\ Len(received) >= 2
  /\ \E a \in 1..Len(received) : \E b \in 1..Len(received) :
       /\ a < b
       /\ brokerMeta[SubscribedTopic][received[a]].askedKey = PyStr("alice")
       /\ brokerMeta[SubscribedTopic][received[b]].askedKey = PyStr("alice")
       /\ brokerMeta[SubscribedTopic][received[a]].push
            # brokerMeta[SubscribedTopic][received[b]].push

====
